---- MODULE Spec2Model ----
(***************************************************************************)
(* State-machine model of backend/app.py (PopUpVideo facts generator).     *)
(*                                                                         *)
(* The Flask handlers generate_facts and list_facts are modelled step by   *)
(* step; the facts directory is a map from file names to file contents;    *)
(* the transcript service and the language model are the environment.      *)
(* Titles are sequences of lexical tokens joined by single spaces, so that *)
(* the regular expressions of the classifier and the parser become tests   *)
(* on tokens.  Video ids and fact texts are strings.  Video ids are taken  *)
(* without path separators.                                                *)
(***************************************************************************)
EXTENDS Integers, Sequences, FiniteSets, TLC

\* ------------------------------------------------------------------ bounds
MaxRequests == 2        \* requests received in one behaviour
MaxTranscript == 1      \* entries of a fetched transcript
MaxTitleLen == 3        \* tokens of a title given to the classifier alone
MaxSampleLen == 150     \* entries of a transcript given to the sampling alone
MaxDuration == 700      \* seconds of a duration given to the timing alone

\* ------------------------------------------------------- program constants
max_retries == 3        \* _call_grok_with_retry
RetryDelay == 2         \* time.sleep(2) of _call_grok_with_retry
TimeMin == 0            \* Fact.time ge
TimeMax == 600          \* Fact.time le
TextMin == 10           \* Fact.text min_length
TextMax == 250          \* Fact.text max_length
FactsMin == 1           \* FactsList.facts min_length
FactsMax == 50          \* FactsList.facts max_length
SampleCap == 50         \* general prompt: at most 50 sampled lines
SampleEdge == 10        \* general prompt: first 10 and last 10 entries
SampleStride == 3       \* general prompt: every 3rd entry
DescMinLen == 20        \* description used only when longer than 20
DescCut == 500          \* description[:500]

None == "None"          \* Python's None where a string is expected
NoData == [none |-> TRUE]                 \* None where an object is expected
NoNumber == [none |-> TRUE, v |-> 0]      \* None where a number is expected
Number(n) == [none |-> FALSE, v |-> n]
NoTranscript == [none |-> TRUE, entries |-> <<>>]   \* None for a transcript
Entries(es) == [none |-> FALSE, entries |-> es]

Procs == {1, 2}         \* request handlers (threads of the server)

\* ------------------------------------------------------------ text helpers
RECURSIVE Join(_)
\* " ".join(tokens)
Join(tokens) ==
    IF tokens = <<>> THEN ""
    ELSE IF Len(tokens) = 1 THEN tokens[1]
    ELSE tokens[1] \o " " \o Join(Tail(tokens))

RECURSIVE Rep(_, _)
\* s * n
Rep(s, n) ==
    IF n = 0 THEN ""
    ELSE LET half == Rep(s, n \div 2)
         IN  half \o half \o (IF n % 2 = 1 THEN s ELSE "")

\* s.endswith(suffix)
EndsWith(s, suffix) ==
    /\ Len(s) >= Len(suffix)
    /\ SubSeq(s, Len(s) - Len(suffix) + 1, Len(s)) = suffix

RECURSIVE Replace(_, _, _)
\* s.replace(old, new), old non-empty: leftmost, non-overlapping
Replace(s, old, new) ==
    IF Len(s) < Len(old) THEN s
    ELSE IF SubSeq(s, 1, Len(old)) = old
         THEN new \o Replace(SubSeq(s, Len(old) + 1, Len(s)), old, new)
         ELSE SubSeq(s, 1, 1) \o Replace(SubSeq(s, 2, Len(s)), old, new)

\* the elements of a sequence
Range(s) == {s[i] : i \in DOMAIN s}

\* all orders in which the elements of a finite set can be listed
Orderings(S) ==
    {s \in [1..Cardinality(S) -> S] : \A x \in S : \E i \in DOMAIN s : s[i] = x}

\* ------------------------------------------------------------- Fact schema
\* class Fact
FactValid(f) ==
    /\ f.time >= TimeMin /\ f.time <= TimeMax
    /\ Len(f.text) >= TextMin /\ Len(f.text) <= TextMax

\* a plausible slip: the upper bounds of the schema are dropped
FactsListValidNoUpper(facts) ==
    /\ Len(facts) >= FactsMin
    /\ \A i \in DOMAIN facts : facts[i].time >= TimeMin /\ Len(facts[i].text) >= TextMin

\* class FactsList: what chat.parse(FactsList) accepts
FactsListValid(facts) ==
    /\ Len(facts) >= FactsMin /\ Len(facts) <= FactsMax
    /\ \A i \in DOMAIN facts : FactValid(facts[i])

\* ------------------------------------------------- is_likely_music_video
\* One token per alternative of non_music_indicators (case-insensitive).
NonMusicTokens ==
    {"Tutorial", "tutorial", "Review", "Trailer", "Episode 3", "Part 2",
     "Live Stream", "News"}

\* Tokens matched by music_indicators wherever they stand.
MusicIndicatorTokens ==
    {"(Official Video)", "[Official Video]", "(Official Music Video)",
     "(Lyric Video)", "[Lyric Video]", "Official Video", "Lyric Video",
     "MV", "Official Audio"}

\* Tokens matched by r' - (Official|Lyric|Music)\s*(Video|Audio)' after " - ".
AfterDashIndicatorTokens ==
    {"Official Video", "Lyric Video", "Music Video", "Official Audio",
     "Lyric Audio", "Music Audio"}

\* music_words
MusicWordTokens ==
    {"featuring", "remix", "cover", "acoustic", "live", "performance"}

RECURSIVE DashScan(_, _, _)
\* positions of the non-overlapping occurrences of " - ", left to right
DashScan(title, i, prevMatched) ==
    IF i >= Len(title) THEN {}
    ELSE IF title[i] = "-" /\ ~prevMatched
         THEN {i} \cup DashScan(title, i + 1, TRUE)
         ELSE DashScan(title, i + 1, FALSE)

DashPositions(title) == DashScan(title, 2, FALSE)

\* ' - ' in title
HasDash(title) == DashPositions(title) # {}

\* the position of the first " - "
FirstDash(title) == CHOOSE i \in DashPositions(title) :
                        \A j \in DashPositions(title) : i <= j

HasNonMusic(title) == \E i \in DOMAIN title : title[i] \in NonMusicTokens

HasMusicIndicator(title) ==
    \/ \E i \in DOMAIN title : title[i] \in MusicIndicatorTokens
    \/ \E i \in DOMAIN title :
          /\ i > 1 /\ i < Len(title)
          /\ title[i] = "-"
          /\ title[i + 1] \in AfterDashIndicatorTokens

\* title.split(' - ') has exactly two parts of 2..50 and 2..100 characters
ArtistSongFormat(title) ==
    /\ HasDash(title)
    /\ Cardinality(DashPositions(title)) = 1
    /\ LET d == FirstDash(title)
           a == Join(SubSeq(title, 1, d - 1))
           b == Join(SubSeq(title, d + 1, Len(title)))
       IN  /\ 2 <= Len(a) /\ Len(a) <= 50
           /\ 2 <= Len(b) /\ Len(b) <= 100

\* a plausible slip: the strong music indicators are looked for first
is_likely_music_video_indicators_first(title) ==
    IF HasMusicIndicator(title)
    THEN [is_music |-> TRUE, reason |-> "Contains music video keywords"]
    ELSE IF HasNonMusic(title)
    THEN [is_music |-> FALSE, reason |-> "Contains non-music keyword"]
    ELSE [is_music |-> TRUE, reason |-> "No clear non-music indicators"]

is_likely_music_video(title) ==
    IF HasNonMusic(title)
    THEN [is_music |-> FALSE, reason |-> "Contains non-music keyword"]
    ELSE IF HasMusicIndicator(title)
    THEN [is_music |-> TRUE, reason |-> "Contains music video keywords"]
    ELSE IF ArtistSongFormat(title)
    THEN [is_music |-> TRUE, reason |-> "Has artist - song format"]
    ELSE IF \E i \in DOMAIN title : title[i] \in MusicWordTokens
    THEN [is_music |-> TRUE, reason |-> "Contains music-related terms"]
    ELSE [is_music |-> TRUE, reason |-> "No clear non-music indicators"]

\* ------------------------------------------------------ parse_video_title
\* Tokens removed by the two re.sub calls:
\* \s*\((Official|Lyric|Music)?\s*(Video|Audio|MV|HD|4K)\) and the [ ] form.
SuffixTokens ==
    {"(Official Video)", "[Official Video]", "(Lyric Video)", "[Lyric Video]",
     "(Music Video)", "(Official Audio)", "(Video)", "(HD)", "[HD]", "(4K)"}

\* re.sub(...).strip(): the title without its suffix tokens
CleanTitle(title) == SelectSeq(title, LAMBDA tok : tok \notin SuffixTokens)

\* the position of the first token "|"
FirstPipe(t) == CHOOSE i \in DOMAIN t :
                    /\ t[i] = "|"
                    /\ \A j \in DOMAIN t : t[j] = "|" => i <= j

parse_video_title(title) ==
    LET clean == CleanTitle(title) IN
    IF HasDash(clean)
    THEN LET d == FirstDash(clean) IN
         [artist |-> Join(SubSeq(clean, 1, d - 1)),
          song |-> Join(SubSeq(clean, d + 1, Len(clean))),
          full_title |-> Join(clean),
          is_music |-> TRUE]
    ELSE IF \E i \in DOMAIN clean : clean[i] = "|"
    THEN LET d == FirstPipe(clean) IN
         [artist |-> Join(SubSeq(clean, 1, d - 1)),
          song |-> Join(SubSeq(clean, d + 1, Len(clean))),
          full_title |-> Join(clean),
          is_music |-> TRUE]
    ELSE [artist |-> "Unknown",
          song |-> Join(clean),
          full_title |-> Join(clean),
          is_music |-> FALSE]

\* ---------------------------------------------------------- prompt builders
\* f"[{entry['start']}s] {entry['text']}"
TranscriptLine(entry) == [start |-> entry.start, text |-> entry.text]

RECURSIVE SampleLoop(_, _, _, _)
\* the sampling loop of the general prompt over the entries lo..hi-1, counted
\* from 0 as enumerate does; once the break was taken no entry is looked at
SampleLoop(transcript, lo, hi, lines) ==
    IF Len(lines) >= SampleCap \/ lo >= hi THEN lines
    ELSE IF hi = lo + 1
    THEN LET taken == \/ lo % SampleStride = 0
                      \/ lo < SampleEdge
                      \/ lo > Len(transcript) - SampleEdge
         IN  IF taken
             THEN Append(lines, TranscriptLine(transcript[lo + 1]))
             ELSE lines
    ELSE LET mid == (lo + hi) \div 2
             first == SampleLoop(transcript, lo, mid, lines)
         IN  SampleLoop(transcript, mid, hi, first)

\* transcript_lines[:50] of generate_general_facts_with_grok ("" when absent)
SampledTranscript(transcript) ==
    IF ~transcript.none /\ Len(transcript.entries) > 0
    THEN LET lines == SampleLoop(transcript.entries, 0, Len(transcript.entries), <<>>)
         IN  SubSeq(lines, 1, IF Len(lines) < SampleCap THEN Len(lines) ELSE SampleCap)
    ELSE <<>>

\* lyrics_lines of generate_facts_with_grok: every entry
FullTranscript(transcript) ==
    IF ~transcript.none /\ Len(transcript.entries) > 0
    THEN [i \in DOMAIN transcript.entries |-> TranscriptLine(transcript.entries[i])]
    ELSE <<>>

\* description_context
DescriptionContext(description) ==
    IF description # None /\ Len(description) > DescMinLen
    THEN SubSeq(description, 1,
                IF Len(description) < DescCut THEN Len(description) ELSE DescCut)
    ELSE ""

Max2(a, b) == IF a >= b THEN a ELSE b
Min2(a, b) == IF a <= b THEN a ELSE b

\* timing_instruction of the general variant: window and number of facts
GeneralTiming(duration) ==
    IF ~duration.none /\ duration.v > 0
    THEN LET n == Max2(10, Min2(25, duration.v \div 15))
         IN  [from |-> 10, to |-> duration.v - 10, nmin |-> n, nmax |-> n]
    ELSE [from |-> 10, to |-> 280, nmin |-> 10, nmax |-> 20]

\* timing_instruction of the music variant
MusicTiming(duration) ==
    IF ~duration.none /\ duration.v > 0
    THEN LET n == Max2(15, Min2(25, duration.v \div 15))
         IN  [from |-> 10, to |-> duration.v - 10, nmin |-> n, nmax |-> n]
    ELSE [from |-> 10, to |-> 280, nmin |-> 15, nmax |-> 20]

\* int(duration) if duration else 'unknown'
DurationText(duration) ==
    IF ~duration.none /\ duration.v # 0
    THEN [known |-> TRUE, seconds |-> duration.v]
    ELSE [known |-> FALSE, seconds |-> 0]

\* the prompt of generate_general_facts_with_grok, by its variable parts
GeneralPrompt(title, video_id, duration, description, transcript) ==
    [variant |-> "general", title |-> title, by |-> None, video_id |-> video_id,
     duration |-> DurationText(duration),
     description |-> DescriptionContext(description),
     transcript |-> SampledTranscript(transcript),
     timing |-> GeneralTiming(duration)]

\* the prompt of generate_facts_with_grok, by its variable parts
MusicPrompt(artist, song, title, video_id, duration, description, transcript) ==
    [variant |-> "music", title |-> title, by |-> artist, video_id |-> video_id,
     duration |-> DurationText(duration),
     description |-> DescriptionContext(description),
     transcript |-> FullTranscript(transcript),
     timing |-> MusicTiming(duration)]

\* ------------------------------------------------------- fallback fact lists
\* generate_general_facts_with_grok without a client
GeneralNoClientFacts(title) ==
    << [time |-> 10, text |-> "Watching: " \o title],
       [time |-> 30, text |-> "Pop Up Video facts coming soon!"],
       [time |-> 60, text |-> "Set your GROK_API_KEY environment variable to generate real facts."] >>

\* generate_facts_with_grok without a client
MusicNoClientFacts(artist, song) ==
    << [time |-> 10, text |-> "This is " \o artist \o " - " \o song \o "!"],
       [time |-> 30, text |-> "Pop Up Video facts coming soon!"],
       [time |-> 60, text |-> "Set your GROK_API_KEY environment variable to generate real facts."] >>

\* the list after the retry loop of _call_grok_with_retry
RetryFallbackFacts ==
    << [time |-> 10, text |-> "Error generating facts"],
       [time |-> 30, text |-> "Unable to connect to fact generator"] >>

\* ------------------------------------------------------ transcript adapter
\* What the transcript service does for one video.
TranscriptOutcomes ==
    {[kind |-> "TranscriptsDisabled", n |-> 0],
     [kind |-> "NoTranscriptFound", n |-> 0],
     [kind |-> "Exception", n |-> 0]}
    \cup {[kind |-> "entries", n |-> k] : k \in 0..MaxTranscript}

\* formatted_transcript for raw data of n entries
FormattedTranscript(n) == [i \in 1..n |-> [start |-> 4 * (i - 1), text |-> "la la la"]]

\* a plausible slip: only the two named exceptions are caught
fetch_youtube_transcript_narrow(outcome) ==
    IF outcome.kind = "entries"
    THEN [raised |-> FALSE, value |-> Entries(FormattedTranscript(outcome.n))]
    ELSE IF outcome.kind \in {"TranscriptsDisabled", "NoTranscriptFound"}
    THEN [raised |-> FALSE, value |-> NoTranscript]
    ELSE [raised |-> TRUE, value |-> NoTranscript]

\* fetch_youtube_transcript: the list of entries, or None on every exception
fetch_youtube_transcript(outcome) ==
    IF outcome.kind = "entries"
    THEN [raised |-> FALSE, value |-> Entries(FormattedTranscript(outcome.n))]
    ELSE [raised |-> FALSE, value |-> NoTranscript]

\* ------------------------------------------------------------ facts store
\* os.path.join(FACTS_DIR, f'{video_id}.json'), within FACTS_DIR
facts_file(video_id) == video_id \o ".json"

EmptyFile == [empty |-> TRUE]   \* a file opened with 'w' and not yet written

\* json.dump(facts_data, f): the text of the file
json_dump(facts_data) == [json |-> facts_data]

RECURSIVE FactsSize(_)
FactsSize(facts) ==
    IF facts = << >> THEN 0
    ELSE Len(facts[Len(facts)].text) + FactsSize(SubSeq(facts, 1, Len(facts) - 1))

PromptSize(prompt) ==
    IF prompt = NoData THEN 0
    ELSE Len(prompt.title) + Len(prompt.by) + Len(prompt.video_id)
         + Len(prompt.description) + Len(prompt.transcript)

\* the length of the text json.dump writes for facts_data, by its strings
TextSize(facts_data) ==
    Len(facts_data.videoId) + Len(facts_data.title) + Len(facts_data.contentType)
    + Len(facts_data.artist) + Len(facts_data.song)
    + PromptSize(facts_data.prompt) + FactsSize(facts_data.facts)

\* the length of a file
FileLen(text) ==
    IF text = EmptyFile THEN 0
    ELSE TextSize(text.json) + (IF "tail" \in DOMAIN text THEN text.tail ELSE 0)

\* a plausible slip: a file that already has content is left alone
file_write_first_wins(old, facts_data) ==
    IF old = EmptyFile THEN json_dump(facts_data) ELSE old

\* json.dump through a file opened with 'w': the text is written from offset
\* 0 of the file as it is now, truncated when it was opened; what another
\* writer has written since then beyond the length of the text stays
file_write(old, facts_data) ==
    IF FileLen(old) > TextSize(facts_data)
    THEN [json |-> facts_data, tail |-> FileLen(old) - TextSize(facts_data)]
    ELSE json_dump(facts_data)

\* json.load(f): the object, or JSONDecodeError on an empty file and on a
\* text with data after the object
json_load(text) ==
    IF text = EmptyFile \/ "tail" \in DOMAIN text
    THEN [raised |-> TRUE, value |-> NoData]
    ELSE [raised |-> FALSE, value |-> text.json]

\* a plausible slip: the cache is never found
path_exists_never(fs, name) == FALSE

\* os.path.exists(facts_file)
path_exists(fs, name) == name \in DOMAIN fs

\* list_facts: names is os.listdir(FACTS_DIR) in the order the OS gives
list_facts(names) ==
    LET kept == SelectSeq(names, LAMBDA f : EndsWith(f, ".json"))
        ids == [i \in DOMAIN kept |-> Replace(kept[i], ".json", "")]
    IN  [count |-> Len(ids), video_ids |-> ids]

\* ------------------------------------------------------------------ inputs
VideoIds == {"", "abc", "x.json"}

Titles ==
    { <<>>,
      <<"Artist", "-", "Song", "(Official Video)">>,
      <<"Some", "Random", "Clip">>,
      <<"Artist", "-", "Song", "Tutorial">> }

Durations == {NoNumber, Number(120)}

Descriptions == {None, "A clip that somebody uploaded."}

\* request.get_json(): the JSON object of a POST /generate-facts; an absent
\* video_id or title reads as '' (data.get(..., '')).  Every video id comes
\* with every title; the duration is sent with the titles that have a " - "
\* and the description with the others.
Bodies ==
    {b \in [video_id : VideoIds, title : Titles, duration : Durations,
            description : Descriptions] :
        /\ b.duration = NoNumber <=> ~HasDash(b.title)
        /\ b.description = None <=> HasDash(b.title)}

GoodText == "The video was shot in a single day."

\* what the language model may answer to one chat.parse call
ModelOutputs ==
    { << [time |-> 600, text |-> Rep("x", TextMin)], [time |-> 0, text |-> Rep("x", TextMax)] >>,
      << [time |-> 601, text |-> GoodText] >>,
      << [time |-> 10, text |-> "Too short"] >>,
      << [time |-> 10, text |-> Rep("x", TextMax + 1)] >>,
      << >>,
      [i \in 1..(FactsMax + 1) |-> [time |-> 10, text |-> GoodText]] }

\* one attempt: the call raises, or the model answers with the text of a
\* facts object, bare or wrapped in a fenced code block
ModelReplies ==
    {[ok |-> FALSE, fenced |-> FALSE, facts |-> <<>>]}
    \cup {[ok |-> TRUE, fenced |-> w, facts |-> f] : w \in BOOLEAN, f \in ModelOutputs}

\* ------------------------------------------------------------------- state
VARIABLES
    xai_client,     \* TRUE iff a credential was configured (Client created)
    fs,             \* FACTS_DIR: file name -> file content
    clock,          \* datetime.utcnow(), as a counter of readings
    nreq,           \* requests received so far
    pc,             \* position of each handler in generate_facts
    req,            \* the request body each handler works on
    loc,            \* the local variables of each handler
    resp,           \* the last response of each handler
    h,              \* history of each handler's current request
    prev,           \* summary of the generate-facts request completed before last
    last,           \* summary of the generate-facts request completed last
    succeeded,      \* video ids of requests answered with HTTP 200
    writeLog,       \* the file names written, in order
    listResp,       \* the last response of list-facts, with succeeded as it was then
    fn              \* one call of a helper function: its name, argument and result

vars == <<xai_client, fs, clock, nreq, pc, req, loc, resp, h, prev, last,
          succeeded, writeLog, listResp, fn>>

NoCall == [op |-> "none", arg |-> NoData, out |-> NoData, done |-> FALSE]

NoBody == [video_id |-> "", title |-> <<>>, duration |-> NoNumber, description |-> None]

NoResp == [status |-> 0, source |-> None, data |-> NoData, error |-> None]

LocInit == [transcript |-> NoTranscript, branch |-> None, prompt |-> NoData,
            attempt |-> 0, facts |-> <<>>, facts_data |-> NoData]

HInit == [did |-> {}, modelCalls |-> 0, failures |-> 0, sleeps |-> 0, waited |-> 0,
          hadEntry |-> FALSE, fs0 |-> << >>, transcript |-> None, outcome |-> None]

Init ==
    /\ xai_client \in BOOLEAN
    /\ fs = << >>
    /\ clock = 0
    /\ nreq = 0
    /\ pc = [p \in Procs |-> "idle"]
    /\ req = [p \in Procs |-> NoBody]
    /\ loc = [p \in Procs |-> LocInit]
    /\ resp = [p \in Procs |-> NoResp]
    /\ h = [p \in Procs |-> HInit]
    /\ prev = NoData
    /\ last = NoData
    /\ succeeded = {}
    /\ writeLog = << >>
    /\ listResp = NoData
    /\ fn = NoCall

\* ------------------------------------------------------------ generate_facts
\* a plausible slip: only video_id is checked
RequestInvalidIdOnly(body) == body.video_id = ""

\* not video_id or not title
RequestInvalid(body) == body.video_id = "" \/ body.title = << >>

\* a plausible slip: the classifier's verdict is not consulted
BranchIgnoringClassifier(title) ==
    LET parsed == parse_video_title(title) IN
    IF ~parsed.is_music /\ parsed.artist = "Unknown" THEN "unclear" ELSE "music"

\* a plausible slip: the parsing quality is not double-checked
BranchTrustingClassifier(title) ==
    IF is_likely_music_video(title).is_music THEN "music" ELSE "general"

\* the branch of the if is_music / double-check cascade
Branch(title) ==
    LET parsed == parse_video_title(title) IN
    IF is_likely_music_video(title).is_music
    THEN IF ~parsed.is_music /\ parsed.artist = "Unknown" THEN "unclear" ELSE "music"
    ELSE "general"

\* a plausible slip: the generators do not look at xai_client
GeneratorStartUnguarded(branch, body, transcript) ==
    LET title == Join(body.title)
        parsed == parse_video_title(body.title)
    IN  IF branch = "music"
        THEN [is_list |-> FALSE, facts |-> << >>,
              prompt |-> MusicPrompt(parsed.artist, parsed.song, parsed.full_title,
                                     body.video_id, body.duration,
                                     body.description, transcript)]
        ELSE [is_list |-> FALSE, facts |-> << >>,
              prompt |-> GeneralPrompt(title, body.video_id, body.duration,
                                       body.description, transcript)]

\* what the chosen generator returns before any model call: the fallback
\* list when there is no client, else the prompt it goes on with
GeneratorStart(branch, body, transcript) ==
    LET title == Join(body.title)
        parsed == parse_video_title(body.title)
    IN  IF branch = "music"
        THEN IF ~xai_client
             THEN [is_list |-> TRUE, facts |-> MusicNoClientFacts(parsed.artist, parsed.song),
                   prompt |-> NoData]
             ELSE [is_list |-> FALSE, facts |-> << >>,
                   prompt |-> MusicPrompt(parsed.artist, parsed.song, parsed.full_title,
                                          body.video_id, body.duration,
                                          body.description, transcript)]
        ELSE IF ~xai_client
             THEN [is_list |-> TRUE, facts |-> GeneralNoClientFacts(title), prompt |-> NoData]
             ELSE [is_list |-> FALSE, facts |-> << >>,
                   prompt |-> GeneralPrompt(title, body.video_id, body.duration,
                                            body.description, transcript)]

\* facts_data
FactsData(body, branch, prompt, facts, now) ==
    LET parsed == parse_video_title(body.title) IN
    [videoId |-> body.video_id,
     title |-> Join(body.title),
     contentType |-> IF branch = "music" THEN "music" ELSE "general",
     artist |-> IF branch = "music" THEN parsed.artist
                ELSE IF branch = "unclear" THEN "Unknown" ELSE "N/A",
     song |-> IF branch = "music" THEN parsed.song ELSE Join(body.title),
     generatedAt |-> now,
     prompt |-> prompt,
     facts |-> facts]

Summary(p, hp, r) ==
    [video_id |-> req[p].video_id, title |-> req[p].title,
     hadEntry |-> hp.hadEntry, modelCalls |-> hp.modelCalls, resp |-> r]

\* the handler returns r: the response is sent and the locals die
Finish(p, hp, r) ==
    /\ pc' = [pc EXCEPT ![p] = "idle"]
    /\ resp' = [resp EXCEPT ![p] = r]
    /\ loc' = [loc EXCEPT ![p] = LocInit]
    /\ h' = [h EXCEPT ![p] = [hp EXCEPT !.outcome = "done"]]
    /\ prev' = last
    /\ last' = Summary(p, hp, r)
    /\ succeeded' = IF r.status = 200 THEN succeeded \cup {req[p].video_id} ELSE succeeded

Ok(source, data) == [status |-> 200, source |-> source, data |-> data, error |-> None]
\* a plausible slip: the status code is left off the return of an error
ErrorWithoutStatus(status, msg) ==
    [status |-> 200, source |-> None, data |-> NoData, error |-> msg]

Error(status, msg) == [status |-> status, source |-> None, data |-> NoData, error |-> msg]

\* lines 408-417: the body is read and the required fields are checked
Receive(p, body) ==
    /\ pc[p] = "idle"
    /\ nreq < MaxRequests
    /\ nreq' = nreq + 1
    /\ req' = [req EXCEPT ![p] = body]
    /\ LET hp == [HInit EXCEPT !.hadEntry = facts_file(body.video_id) \in DOMAIN fs,
                               !.fs0 = fs, !.outcome = "running"]
       IN  IF RequestInvalid(body)
           THEN /\ pc' = [pc EXCEPT ![p] = "idle"]
                /\ resp' = [resp EXCEPT ![p] = Error(400, "Missing video_id or title")]
                /\ loc' = [loc EXCEPT ![p] = LocInit]
                /\ h' = [h EXCEPT ![p] = [hp EXCEPT !.outcome = "done"]]
                /\ prev' = last
                /\ last' = [video_id |-> body.video_id, title |-> body.title,
                            hadEntry |-> hp.hadEntry, modelCalls |-> 0,
                            resp |-> Error(400, "Missing video_id or title")]
                /\ UNCHANGED succeeded
           ELSE /\ pc' = [pc EXCEPT ![p] = "check_cache"]
                /\ h' = [h EXCEPT ![p] = hp]
                /\ loc' = [loc EXCEPT ![p] = LocInit]
                /\ UNCHANGED <<resp, prev, last, succeeded>>
    /\ UNCHANGED <<fn, xai_client, fs, clock, writeLog, listResp>>

\* lines 420-421: os.path.exists(facts_file)
CheckCache(p) ==
    /\ pc[p] = "check_cache"
    /\ pc' = [pc EXCEPT ![p] = IF path_exists(fs, facts_file(req[p].video_id))
                               THEN "read_cache" ELSE "fetch_transcript"]
    /\ h' = [h EXCEPT ![p].did = @ \cup {"lookup"}]
    /\ UNCHANGED <<fn, xai_client, fs, clock, nreq, req, loc, resp, prev, last,
                   succeeded, writeLog, listResp>>

\* lines 422-428: the file is opened, loaded and returned
ReadCache(p) ==
    /\ pc[p] = "read_cache"
    /\ LET loaded == json_load(fs[facts_file(req[p].video_id)])
       IN  IF loaded.raised
           THEN Finish(p, h[p], Error(500, "JSONDecodeError"))
           ELSE Finish(p, h[p], Ok("cache", loaded.value))
    /\ UNCHANGED <<fn, xai_client, fs, clock, nreq, req, writeLog, listResp>>

\* line 431: transcript = fetch_youtube_transcript(video_id)
FetchTranscript(p, outcome) ==
    /\ pc[p] = "fetch_transcript"
    /\ LET got == fetch_youtube_transcript(outcome)
           hp == [h[p] EXCEPT !.did = @ \cup {"transcript"}, !.transcript = outcome.kind]
       IN  IF got.raised
           THEN /\ Finish(p, hp, Error(500, outcome.kind))
           ELSE /\ pc' = [pc EXCEPT ![p] = "generate"]
                /\ loc' = [loc EXCEPT ![p].transcript = got.value]
                /\ h' = [h EXCEPT ![p] = hp]
                /\ UNCHANGED <<resp, prev, last, succeeded>>
    /\ UNCHANGED <<fn, xai_client, fs, clock, nreq, req, writeLog, listResp>>

\* lines 439-477: classification, parsing, and the call of one generator up to
\* its first model call; without a client the generator returns a list and
\* result['facts'] raises TypeError
Generate(p) ==
    /\ pc[p] = "generate"
    /\ LET branch == Branch(req[p].title)
           start == GeneratorStart(branch, req[p], loc[p].transcript)
           hp == [h[p] EXCEPT !.did = @ \cup {IF branch = "music" THEN "generate_music"
                                                ELSE "generate_general"}]
       IN  IF start.is_list
           THEN Finish(p, hp, Error(500, "list indices must be integers or slices, not str"))
           ELSE /\ pc' = [pc EXCEPT ![p] = "call_model"]
                /\ loc' = [loc EXCEPT ![p].branch = branch, ![p].prompt = start.prompt,
                                      ![p].attempt = 0]
                /\ h' = [h EXCEPT ![p] = hp]
                /\ UNCHANGED <<resp, prev, last, succeeded>>
    /\ UNCHANGED <<fn, xai_client, fs, clock, nreq, req, writeLog, listResp>>

\* a plausible slip: the last attempt is not told from the others
LastAttemptNever(attempt) == FALSE

\* line 380: attempt == max_retries - 1
LastAttempt(attempt) == attempt = max_retries - 1

\* lines 362-374: chat.parse(FactsList) validates the text of the answer as it
\* came; nothing is taken off it before, so the text of a fenced answer is
\* not a JSON object and the validation raises
chat_parse(reply) ==
    IF reply.ok /\ ~reply.fenced /\ FactsListValid(reply.facts)
    THEN [raised |-> FALSE, facts |-> reply.facts]
    ELSE [raised |-> TRUE, facts |-> << >>]

\* lines 358-381: one attempt of _call_grok_with_retry
CallModel(p, reply) ==
    /\ pc[p] = "call_model"
    /\ LET success == ~chat_parse(reply).raised
           hp == [h[p] EXCEPT !.did = @ \cup {"model"},
                              !.modelCalls = @ + 1,
                              !.failures = IF success THEN @ ELSE @ + 1]
       IN  IF success
           THEN /\ pc' = [pc EXCEPT ![p] = "save"]
                /\ loc' = [loc EXCEPT ![p].facts = chat_parse(reply).facts]
                /\ h' = [h EXCEPT ![p] = hp]
                /\ UNCHANGED <<resp, prev, last, succeeded>>
           ELSE IF LastAttempt(loc[p].attempt)
           THEN Finish(p, hp, Error(500, "attempt_error"))
           ELSE /\ pc' = [pc EXCEPT ![p] = "sleep"]
                /\ h' = [h EXCEPT ![p] = hp]
                /\ UNCHANGED <<loc, resp, prev, last, succeeded>>
    /\ UNCHANGED <<fn, xai_client, fs, clock, nreq, req, writeLog, listResp>>

\* lines 383-392: time.sleep(2), then the next iteration of the loop, or the
\* list after the loop when the range is exhausted
Sleep(p) ==
    /\ pc[p] = "sleep"
    /\ IF loc[p].attempt + 1 < max_retries
       THEN /\ pc' = [pc EXCEPT ![p] = "call_model"]
            /\ loc' = [loc EXCEPT ![p].attempt = @ + 1]
       ELSE /\ pc' = [pc EXCEPT ![p] = "save"]
            /\ loc' = [loc EXCEPT ![p].facts = RetryFallbackFacts]
    /\ h' = [h EXCEPT ![p].sleeps = @ + 1, ![p].waited = @ + RetryDelay]
    /\ UNCHANGED <<fn, xai_client, fs, clock, nreq, req, resp, prev, last, succeeded,
                   writeLog, listResp>>

\* lines 479-492: facts_data is assembled and the file is opened for writing
OpenFile(p) ==
    /\ pc[p] = "save"
    /\ LET data == FactsData(req[p], loc[p].branch, loc[p].prompt, loc[p].facts, clock)
       IN  /\ loc' = [loc EXCEPT ![p].facts_data = data]
           /\ fs' = (facts_file(req[p].video_id) :> EmptyFile) @@ fs
    /\ clock' = clock + 1
    /\ pc' = [pc EXCEPT ![p] = "dump"]
    /\ UNCHANGED <<fn, xai_client, nreq, req, resp, h, prev, last, succeeded,
                   writeLog, listResp>>

\* a plausible slip: building the response fails once the file is written
GeneratedResponseFailing(data) == Error(500, "response")

\* lines 497-500: the response of a generation
GeneratedResponse(data) == Ok("generated", data)

\* lines 493-500: json.dump, then the response
DumpFile(p) ==
    /\ pc[p] = "dump"
    /\ fs' = (facts_file(req[p].video_id)
                :> file_write(fs[facts_file(req[p].video_id)], loc[p].facts_data)) @@ fs
    /\ writeLog' = Append(writeLog, facts_file(req[p].video_id))
    /\ Finish(p, [h[p] EXCEPT !.did = @ \cup {"write"}], GeneratedResponse(loc[p].facts_data))
    /\ UNCHANGED <<fn, xai_client, clock, nreq, req, listResp>>

\* ---------------------------------------------------------------- list_facts
ListFacts(names) ==
    /\ nreq < MaxRequests
    /\ nreq' = nreq + 1
    /\ listResp' = [answer |-> list_facts(names), succeeded |-> succeeded]
    /\ UNCHANGED <<fn, xai_client, fs, clock, pc, req, loc, resp, h, prev, last,
                   succeeded, writeLog>>

AllIdle == \A p \in Procs : pc[p] = "idle"

\* ----------------------------------------------------------- specification
\* Requests are handled one at a time, by handler 1.
Next ==
    \/ \E body \in Bodies : Receive(1, body)
    \/ CheckCache(1)
    \/ ReadCache(1)
    \/ \E outcome \in TranscriptOutcomes : FetchTranscript(1, outcome)
    \/ Generate(1)
    \/ \E reply \in ModelReplies : CallModel(1, reply)
    \/ Sleep(1)
    \/ OpenFile(1)
    \/ DumpFile(1)
    \/ \E names \in Orderings(DOMAIN fs) : AllIdle /\ ListFacts(names)

Spec == Init /\ [][Next]_vars

\* ------------------------------------------------------------- progress
\* A handler that has taken a request runs on: the cache lookup, the file
\* operations and the sleep end; the transcript fetch and the model call
\* return or raise.
HandlerStep(p) ==
    \/ CheckCache(p)
    \/ ReadCache(p)
    \/ \E outcome \in TranscriptOutcomes : FetchTranscript(p, outcome)
    \/ Generate(p)
    \/ \E reply \in ModelReplies : CallModel(p, reply)
    \/ Sleep(p)
    \/ OpenFile(p)
    \/ DumpFile(p)

\* the requests for one video id
FairBodies == {b \in Bodies : b.video_id = "abc"}

NextFair ==
    \/ \E body \in FairBodies : Receive(1, body)
    \/ CheckCache(1)
    \/ ReadCache(1)
    \/ \E outcome \in TranscriptOutcomes : FetchTranscript(1, outcome)
    \/ Generate(1)
    \/ \E reply \in ModelReplies : CallModel(1, reply)
    \/ Sleep(1)
    \/ OpenFile(1)
    \/ DumpFile(1)
    \/ \E names \in Orderings(DOMAIN fs) : AllIdle /\ ListFacts(names)

SpecFair == Init /\ [][NextFair]_vars /\ WF_vars(HandlerStep(1))

\* ---------------------------------------------------- concurrent requests
\* The server handles requests in threads: the steps of both handlers and
\* list-facts interleave freely. The requests are valid ones for one video id.
ConcurrentBodies == {b \in Bodies : b.video_id = "abc" /\ b.title # << >>}

NextConcurrent ==
    \/ \E p \in Procs : \E body \in ConcurrentBodies : Receive(p, body)
    \/ \E p \in Procs : CheckCache(p)
    \/ \E p \in Procs : ReadCache(p)
    \/ \E p \in Procs : \E outcome \in TranscriptOutcomes : FetchTranscript(p, outcome)
    \/ \E p \in Procs : Generate(p)
    \/ \E p \in Procs : \E reply \in ModelReplies : CallModel(p, reply)
    \/ \E p \in Procs : Sleep(p)
    \/ \E p \in Procs : OpenFile(p)
    \/ \E p \in Procs : DumpFile(p)
    \/ \E names \in Orderings(DOMAIN fs) : ListFacts(names)

SpecConcurrent == Init /\ [][NextConcurrent]_vars

\* --------------------------------------------- the helper functions alone
\* One call of is_likely_music_video, of the sampling loop of
\* generate_general_facts_with_grok, of the timing of both generators, or of
\* one attempt of _call_grok_with_retry, on an argument out of a bounded set;
\* no request is handled.
HelperTokens ==
    {"Artist", "-", "|", "Tutorial", "Live Stream", "(Official Video)",
     "Music Video", "live"}

HelperTitles == UNION {[1..k -> HelperTokens] : k \in 0..MaxTitleLen}

HelperCall(op, arg) == [op |-> op, arg |-> arg, out |-> NoData, done |-> FALSE]

HelperCalls ==
    {HelperCall("classify", t) : t \in HelperTitles}
    \cup {HelperCall("sample", n) : n \in 0..MaxSampleLen}
    \cup {HelperCall("timing", d) : d \in 1..MaxDuration}
    \cup {HelperCall("parse", reply) : reply \in ModelReplies}

InitHelpers ==
    /\ xai_client = TRUE
    /\ fs = << >>
    /\ clock = 0
    /\ nreq = 0
    /\ pc = [p \in Procs |-> "idle"]
    /\ req = [p \in Procs |-> NoBody]
    /\ loc = [p \in Procs |-> LocInit]
    /\ resp = [p \in Procs |-> NoResp]
    /\ h = [p \in Procs |-> HInit]
    /\ prev = NoData
    /\ last = NoData
    /\ succeeded = {}
    /\ writeLog = << >>
    /\ listResp = NoData
    /\ fn \in HelperCalls

HandlerVars == <<xai_client, fs, clock, nreq, pc, req, loc, resp, h, prev, last,
                 succeeded, writeLog, listResp>>

\* is_likely_music_video(title)
Classify ==
    /\ fn.op = "classify" /\ ~fn.done
    /\ fn' = [fn EXCEPT !.out = is_likely_music_video(fn.arg), !.done = TRUE]
    /\ UNCHANGED HandlerVars

\* the transcript_lines of the general prompt for a transcript of fn.arg entries
Sample ==
    /\ fn.op = "sample" /\ ~fn.done
    /\ fn' = [fn EXCEPT !.out = SampledTranscript(Entries(FormattedTranscript(fn.arg))),
                        !.done = TRUE]
    /\ UNCHANGED HandlerVars

\* the timing_instruction of both generators for a duration of fn.arg seconds
Timing ==
    /\ fn.op = "timing" /\ ~fn.done
    /\ fn' = [fn EXCEPT !.out = [general |-> GeneralTiming(Number(fn.arg)),
                                 music |-> MusicTiming(Number(fn.arg))],
                        !.done = TRUE]
    /\ UNCHANGED HandlerVars

\* one attempt of _call_grok_with_retry on the answer fn.arg
ParseReply ==
    /\ fn.op = "parse" /\ ~fn.done
    /\ fn' = [fn EXCEPT !.out = chat_parse(fn.arg), !.done = TRUE]
    /\ UNCHANGED HandlerVars

NextHelpers ==
    \/ Classify
    \/ Sample
    \/ Timing
    \/ ParseReply

SpecHelpers == InitHelpers /\ [][NextHelpers]_vars

\* ------------------------------------------------------------------ claims
Running(p) == h[p].outcome = "running"
Done(p) == h[p].outcome = "done"
FieldsValid(body) == body.video_id # "" /\ body.title # << >>
Stored(name) == name \in DOMAIN fs /\ fs[name] # EmptyFile
Generators == {"generate_music", "generate_general"}

\* C1: of two valid requests with the same video id handled one after the
\* other, the first finding no cache entry, the second is answered from the
\* cache with the data of the first, and the model is called at most once.
C1_Idempotence ==
    (/\ prev # NoData
     /\ FieldsValid(prev) /\ FieldsValid(last)
     /\ prev.video_id = last.video_id
     /\ ~prev.hadEntry)
    => /\ last.resp.status = 200
       /\ last.resp.source = "cache"
       /\ last.resp.data = prev.resp.data
       /\ prev.modelCalls + last.modelCalls <= 1

\* C2: with a client, a valid cache-miss request whose 3 attempts all failed
\* is answered 200 "generated" with exactly the two retry-fallback facts, and
\* that record is in the cache.
C2_RetryExhaustionFallback ==
    \A p \in Procs :
        (/\ Done(p) /\ xai_client /\ FieldsValid(req[p]) /\ ~h[p].hadEntry
         /\ h[p].failures = max_retries)
        => /\ resp[p].status = 200
           /\ resp[p].source = "generated"
           /\ resp[p].data.facts = RetryFallbackFacts
           /\ Stored(facts_file(req[p].video_id))
           /\ fs[facts_file(req[p].video_id)] = json_dump(resp[p].data)

\* the identity fallback facts of the request's path
IdentityFacts(body) ==
    IF Branch(body.title) = "music"
    THEN MusicNoClientFacts(parse_video_title(body.title).artist,
                            parse_video_title(body.title).song)
    ELSE GeneralNoClientFacts(Join(body.title))

\* C3: without a client, every valid cache-miss request is answered 200
\* "generated" with the identity fallback facts of its path, persisted.
C3_NoCredentialFallback ==
    \A p \in Procs :
        (Done(p) /\ ~xai_client /\ FieldsValid(req[p]) /\ ~h[p].hadEntry)
        => /\ resp[p].status = 200
           /\ resp[p].source = "generated"
           /\ resp[p].data.facts = IdentityFacts(req[p])
           /\ Stored(facts_file(req[p].video_id))
           /\ fs[facts_file(req[p].video_id)] = json_dump(resp[p].data)

\* C4: a request with an empty or missing video_id or title ends with HTTP 400
\* and an error body, having done no cache lookup, transcript fetch, model
\* call or cache write.
C4_ValidationFirst ==
    \A p \in Procs :
        (h[p].outcome # None /\ ~FieldsValid(req[p]))
        => /\ Done(p)
           /\ resp[p].status = 400
           /\ resp[p].error # None
           /\ resp[p].data = NoData
           /\ h[p].did = {}
           /\ h[p].modelCalls = 0
           /\ fs = h[p].fs0

C4_Witness ==
    \E p \in Procs :
        /\ Done(p) /\ req[p].video_id # "" /\ req[p].title = << >>
        /\ resp[p].status = 400

\* C5: a request that finds a cache entry for its video id returns the stored
\* record with source "cache", does nothing but the lookup, and leaves the
\* store as it was.
C5_CacheHitFrame ==
    \A p \in Procs :
        (h[p].outcome # None /\ FieldsValid(req[p]) /\ h[p].hadEntry)
        => /\ h[p].did \subseteq {"lookup"}
           /\ h[p].modelCalls = 0
           /\ fs = h[p].fs0
           /\ Done(p) => /\ resp[p].status = 200
                         /\ resp[p].source = "cache"
                         /\ json_dump(resp[p].data) = h[p].fs0[facts_file(req[p].video_id)]

C5_Witness ==
    \E p \in Procs :
        /\ Done(p) /\ h[p].hadEntry /\ resp[p].source = "cache"
        /\ resp[p].data.videoId = req[p].video_id
        /\ resp[p].data.title # Join(req[p].title)

NoDuplicates(s) == \A i, j \in DOMAIN s : s[i] = s[j] => i = j

\* C6: a stored record is never modified or removed by a later step, and no
\* file is written twice.
C6_WriteOnce ==
    [][/\ \A name \in DOMAIN fs :
            /\ name \in DOMAIN fs'
            /\ fs[name] # EmptyFile => fs'[name] = fs[name]
       /\ NoDuplicates(writeLog')]_vars

C6_Witness ==
    /\ prev # NoData
    /\ prev.resp.source = "generated"
    /\ last.video_id = prev.video_id
    /\ last.title # prev.title
    /\ last.resp.status = 200
    /\ writeLog = << facts_file(prev.video_id) >>
    /\ fs[facts_file(prev.video_id)] = json_dump(prev.resp.data)

\* C7: the count of list-facts is the number of distinct video ids answered
\* with HTTP 200 so far, and video_ids lists exactly those ids.
C7_ListFactsCount ==
    listResp # NoData
    => /\ listResp.answer.count = Cardinality(listResp.succeeded)
       /\ Range(listResp.answer.video_ids) = listResp.succeeded

FactsInBounds(facts) ==
    /\ Len(facts) >= FactsMin /\ Len(facts) <= FactsMax
    /\ \A i \in DOMAIN facts :
          /\ facts[i].time >= TimeMin /\ facts[i].time <= TimeMax
          /\ Len(facts[i].text) >= TextMin /\ Len(facts[i].text) <= TextMax

\* C8: every stored record and every record returned with source "generated"
\* has 1 to 50 facts, each with 0 <= time <= 600 and 10 <= len(text) <= 250.
C8_FactsWithinSchema ==
    /\ \A name \in DOMAIN fs :
          fs[name] # EmptyFile => FactsInBounds(fs[name].json.facts)
    /\ \A p \in Procs :
          resp[p].source = "generated" => FactsInBounds(resp[p].data.facts)

C8_Witness ==
    \E p \in Procs :
        /\ resp[p].source = "generated"
        /\ \E i \in DOMAIN resp[p].data.facts :
              /\ resp[p].data.facts[i].time = TimeMax
              /\ Len(resp[p].data.facts[i].text) = TextMin
        /\ \E i \in DOMAIN resp[p].data.facts :
              /\ resp[p].data.facts[i].time = TimeMin
              /\ Len(resp[p].data.facts[i].text) = TextMax
        /\ fs[facts_file(req[p].video_id)] = json_dump(resp[p].data)

\* the status of a request that reached generation, as the credential and the
\* model's replies decide it
StatusOfGeneration(p) ==
    IF xai_client /\ h[p].failures < max_retries THEN 200 ELSE 500

\* C9: whatever the transcript fetch did, the request goes on to
\* classification and generation, and its status is the one the same request
\* has with an empty transcript.
C9_TranscriptNeverFails ==
    \A p \in Procs :
        ("transcript" \in h[p].did)
        => /\ Running(p) => pc[p] \in {"generate", "call_model", "sleep", "save", "dump"}
           /\ Done(p) => /\ h[p].did \cap Generators # {}
                         /\ resp[p].status = StatusOfGeneration(p)

C9_Witness ==
    \E p \in Procs :
        /\ Done(p) /\ h[p].transcript = "Exception"
        /\ resp[p].status = 200 /\ resp[p].source = "generated"

\* C10: every valid cache-miss request calls a generator; a title classified
\* as non-music goes to the general generator and its record has contentType
\* "general"; no response has source "skipped".
C10_AlwaysGenerate ==
    \A p \in Procs :
        /\ resp[p].source # "skipped"
        /\ (Done(p) /\ FieldsValid(req[p]) /\ ~h[p].hadEntry)
           => /\ h[p].did \cap Generators # {}
              /\ ~is_likely_music_video(req[p].title).is_music
                 => /\ h[p].did \cap Generators = {"generate_general"}
                    /\ resp[p].status = 200
                       => /\ resp[p].source = "generated"
                          /\ resp[p].data.contentType = "general"
                          /\ fs[facts_file(req[p].video_id)].json.contentType = "general"

C10_Witness ==
    \E p \in Procs :
        /\ Done(p) /\ ~is_likely_music_video(req[p].title).is_music
        /\ HasDash(req[p].title)
        /\ resp[p].source = "generated"
        /\ resp[p].data.contentType = "general"
        /\ resp[p].data.artist = "N/A"

\* C11: is_likely_music_video answers "not music" exactly for the titles that
\* match a non-music pattern, whatever music indicators, dashes or music
\* words the title holds besides; every other title is answered "music".
C11_NonMusicDecides ==
    (fn.op = "classify" /\ fn.done)
    => (fn.out.is_music <=> ~(\E i \in DOMAIN fn.arg : fn.arg[i] \in NonMusicTokens))

\* a title with a non-music word, a music indicator and a dash, answered "not music"
C11_Witness ==
    /\ fn.op = "classify" /\ fn.done
    /\ fn.arg = <<"Tutorial", "-", "(Official Video)">>
    /\ ~fn.out.is_music

ParseFailed(title) ==
    parse_video_title(title).artist = "Unknown" /\ ~parse_video_title(title).is_music

MusicPath(title) == is_likely_music_video(title).is_music /\ ~ParseFailed(title)

\* C12: the music generator is called, and the record is stored with
\* contentType "music", exactly when the classifier answered music and the
\* parser did not fail; when the classifier answered music and the parser
\* failed, the general generator is called and the record is stored with
\* contentType "general", artist "Unknown" and the request title as song.
C12_MusicPathRouting ==
    \A p \in Procs :
        LET title == req[p].title
            data == resp[p].data
        IN  /\ (h[p].did \cap Generators # {})
               => /\ ("generate_music" \in h[p].did <=> MusicPath(title))
                  /\ ("generate_general" \in h[p].did <=> ~MusicPath(title))
            /\ (pc[p] \in {"call_model", "sleep"})
               => (loc[p].prompt.variant = "music" <=> MusicPath(title))
            /\ (Done(p) /\ resp[p].source = "generated")
               => /\ fs[facts_file(req[p].video_id)] = json_dump(data)
                  /\ (data.contentType = "music" <=> MusicPath(title))
                  /\ (data.contentType = "general" <=> ~MusicPath(title))
                  /\ (is_likely_music_video(title).is_music /\ ParseFailed(title))
                     => /\ data.artist = "Unknown"
                        /\ data.song = Join(title)

\* a title the classifier takes for music and the parser cannot split was
\* stored as general content
C12_Witness ==
    /\ Done(1) /\ resp[1].source = "generated"
    /\ is_likely_music_video(req[1].title).is_music /\ ParseFailed(req[1].title)
    /\ "generate_general" \in h[1].did
    /\ fs[facts_file(req[1].video_id)].json.contentType = "general"
    /\ fs[facts_file(req[1].video_id)].json.artist = "Unknown"

\* C13: within one request the model is called at most three times; after
\* an attempt that succeeded no further call is made; the generator has
\* waited, two seconds each time, once for every failed attempt that was
\* not the third, and after the third failed attempt it neither calls the
\* model again nor waits.
C13_RetryDiscipline ==
    \A p \in Procs :
        LET calls == h[p].modelCalls
            failed == h[p].failures
        IN  /\ calls <= 3
            /\ failed <= calls /\ calls <= failed + 1
            /\ calls = failed + 1 => pc[p] \notin {"call_model", "sleep"}
            /\ failed = 3 => pc[p] \notin {"call_model", "sleep"}
            /\ h[p].sleeps = (IF pc[p] = "sleep" THEN failed - 1
                              ELSE IF failed = 3 THEN 2 ELSE failed)
            /\ h[p].waited = 2 * h[p].sleeps

\* a request ended after three failed attempts and two waits, and another
\* was stored after one failed attempt, one wait and one successful attempt
C13_Witness ==
    /\ prev # NoData
    /\ prev.resp.status = 500 /\ prev.modelCalls = 3
    /\ Done(1) /\ resp[1].source = "generated"
    /\ h[1].modelCalls = 2 /\ h[1].failures = 1 /\ h[1].sleeps = 1

ErrorStatus == {400, 500}

\* C14: a request answered with HTTP 400 or HTTP 500 leaves the facts store
\* as it found it, so that the next request for the same video id, the store
\* having held no entry for it, finds none again.
C14_FailureLeavesStore ==
    /\ \A p \in Procs :
           (Done(p) /\ resp[p].status \in ErrorStatus) => fs = h[p].fs0
    /\ (/\ prev # NoData
        /\ prev.resp.status \in ErrorStatus
        /\ ~prev.hadEntry
        /\ last.video_id = prev.video_id)
       => ~last.hadEntry

\* a request failed after three model calls and the request after it, for
\* the same video id, missed the cache as well
C14_Witness ==
    /\ prev # NoData
    /\ prev.resp.status = 500 /\ prev.modelCalls = 3 /\ ~prev.hadEntry
    /\ last.video_id = prev.video_id /\ ~last.hadEntry
    /\ last.modelCalls > 0
    /\ Done(1) /\ fs = h[1].fs0

BothGenerated ==
    /\ prev # NoData
    /\ prev.resp.source = "generated" /\ last.resp.source = "generated"
    /\ prev.video_id = last.video_id

\* C15: two requests for the same video id can both miss the cache, both
\* call the model and both write the file; whenever two requests in a row
\* have both generated and written the record of one video id, the file
\* holds the record written last, whole unless the record written before it
\* was the longer one and was written while the file was already opened for
\* the last write.
C15_LastWriteWins ==
    BothGenerated
    => LET text == fs[facts_file(last.video_id)]
       IN  /\ text # EmptyFile
           /\ text.json = last.resp.data
           /\ \/ text = json_dump(last.resp.data)
              \/ TextSize(prev.resp.data) > TextSize(last.resp.data)

\* both handlers missed the cache for "abc", both called the model and both
\* wrote abc.json, which holds the record written last
C15_Witness ==
    /\ BothGenerated
    /\ \A p \in Procs :
           /\ Done(p) /\ req[p].video_id = "abc"
           /\ ~h[p].hadEntry
           /\ {"lookup", "model", "write"} \subseteq h[p].did
           /\ h[p].modelCalls >= 1
    /\ writeLog = <<facts_file("abc"), facts_file("abc")>>
    /\ fs[facts_file("abc")] = json_dump(last.resp.data)
    /\ last.resp.data # prev.resp.data

\* C16: a request that finds the cache entry of its video id is answered
\* from the cache with a complete record that a request assembled and wrote;
\* it never finds the entry empty or with a damaged text and fails.
C16_CacheReadsComplete ==
    \A p \in Procs :
        /\ pc[p] = "read_cache"
           => LET text == fs[facts_file(req[p].video_id)]
              IN  text # EmptyFile /\ text = json_dump(text.json)
        /\ (Done(p) /\ "lookup" \in h[p].did /\ "transcript" \notin h[p].did)
           => /\ resp[p].status = 200
              /\ resp[p].source = "cache"

\* the terminal outcomes of generate_facts
TerminalOutcome(r) ==
    \/ r.status = 400 /\ r.source = None /\ r.error = "Missing video_id or title"
    \/ r.status = 200 /\ r.source = "cache" /\ r.error = None
    \/ r.status = 200 /\ r.source = "generated" /\ r.error = None
    \/ r.status = 500 /\ r.source = None /\ r.error \notin {None, ""}

\* what was raised while the request was handled, if anything was
Raised(p) ==
    \/ h[p].failures = 3
    \/ ~xai_client /\ h[p].did \cap Generators # {}

\* C17: the transcript fetch and the model call returning or raising, every
\* request taken by the handler is answered, with one of HTTP 400 for a
\* missing field, HTTP 200 from the cache, HTTP 200 generated and HTTP 500;
\* a request during which an exception was raised and not caught before the
\* handler's except clause is answered HTTP 500 with the message.
C17_Terminates ==
    /\ [](\A p \in Procs :
            /\ Done(p) => TerminalOutcome(resp[p])
            /\ Raised(p)
               => /\ Done(p)
                  /\ resp[p].status = 500
                  /\ resp[p].error \in
                        {"attempt_error",
                         "list indices must be integers or slices, not str"})
    /\ \A p \in Procs : Running(p) ~> Done(p)

\* a request was answered HTTP 500 after the third attempt raised
C17_Witness ==
    /\ Done(1) /\ h[1].failures = 3 /\ h[1].sleeps = 2
    /\ resp[1].status = 500 /\ resp[1].error = "attempt_error"

\* C18: without a credential the model is never called, whatever requests
\* arrive: no handler builds a prompt, enters the retry loop or waits.
C18_NoCredentialNoModelCall ==
    ~xai_client
    => /\ \A p \in Procs :
              /\ h[p].modelCalls = 0 /\ h[p].failures = 0 /\ h[p].sleeps = 0
              /\ "model" \notin h[p].did
              /\ pc[p] \notin {"call_model", "sleep", "save", "dump"}
              /\ loc[p].prompt = NoData
       /\ last # NoData => last.modelCalls = 0
       /\ prev # NoData => prev.modelCalls = 0

\* without a credential the music generator and then the general generator
\* were called, and both requests ended without a model call
C18_Witness ==
    /\ ~xai_client
    /\ prev # NoData
    /\ prev.title = <<"Artist", "-", "Song", "(Official Video)">>
    /\ prev.resp.status = 500 /\ prev.modelCalls = 0
    /\ Done(1) /\ "generate_general" \in h[1].did /\ h[1].modelCalls = 0

\* the entries, counted from 0, whose lines the sampling has kept
SampledIndices == {fn.out[k].start \div 4 : k \in DOMAIN fn.out}

\* C19: of a transcript of n entries the sampled lines are at most 50, stand
\* in the order of the transcript, and hold the first 10 and the last 10
\* entries (every entry when n <= 20), for every n, and every third entry
\* between them as far as the 50 lines reach.
C19_SampleKeepsEnds ==
    (fn.op = "sample" /\ fn.done)
    => LET n == fn.arg IN
       /\ Len(fn.out) <= 50
       /\ \A k \in DOMAIN fn.out : k > 1 => fn.out[k - 1].start < fn.out[k].start
       /\ \A i \in 0..(n - 1) : (i < 10 \/ i >= n - 10) => i \in SampledIndices
       /\ Len(fn.out) < 50
          => \A i \in 0..(n - 1) : i % 3 = 0 => i \in SampledIndices

\* C20: for a known duration of d > 0 seconds both generators ask for facts
\* from 10 seconds to d - 10 seconds, a window that is not empty and lies
\* within the 0..600 seconds a Fact may carry.
C20_TimingWindow ==
    (fn.op = "timing" /\ fn.done)
    => \A w \in {fn.out.general, fn.out.music} :
          /\ w.from = 10 /\ w.to = fn.arg - 10
          /\ w.from <= w.to
          /\ 0 <= w.from /\ w.to <= 600

\* C21: an attempt whose answer is a facts object that conforms to the
\* schema, wrapped in a fenced code block, succeeds and yields those facts.
C21_FencedAnswerAccepted ==
    (/\ fn.op = "parse" /\ fn.done
     /\ fn.arg.ok /\ fn.arg.fenced
     /\ FactsInBounds(fn.arg.facts))
    => /\ ~fn.out.raised
       /\ fn.out.facts = fn.arg.facts

====
